---- MODULE Spec2Model ----
(***************************************************************************)
(* Malaysian stock tracker: one run of run_stock_scraper (gate, fetch      *)
(* loop, render, persist, summary, notify) and the per-symbol quote        *)
(* normalization of get_closing_prices_yfinance.                           *)
(*                                                                         *)
(* Prices are fixed-point integers.  A raw provider price is a count of    *)
(* 1/10000 RM; a recorded price (3 decimals) is a count of 1/1000 RM; a    *)
(* recorded change_pct (2 decimals) is a count of 1/100 percent.  Python's *)
(* round() is modelled as round-half-to-even on these exact decimals.      *)
(* The wall-clock date columns (current_date, prev_date) are not modelled. *)
(***************************************************************************)
EXTENDS Integers, Sequences, FiniteSets, TLC

VARIABLES
    pc,              \* position of the run inside run_stock_scraper
    weekday,         \* datetime.now().weekday() of the run: 0 = Monday .. 6 = Sunday
    idx,             \* position of the fetch loop in stock_symbols
    data,            \* ticker.info of the symbol fetched last (or that the call raised)
    closing_prices,  \* the Record Set, in insertion order
    unresolved,      \* companies whose payload had no last_done or no prev_close
    log,             \* console lines and external calls, in order
    table,           \* rows printed by the report loop
    csv_file_path,   \* return value of save_to_csv: None or the path
    csv_file,        \* the output file on disk: None or its rows
    stock_summary,   \* return value of generate_stock_summary
    outbox,          \* messages handed to server.sendmail
    exit_status      \* None while running, then the process exit status

vars == <<pc, weekday, idx, data, closing_prices, unresolved, log, table,
          csv_file_path, csv_file, stock_summary, outbox, exit_status>>

\* ------------------------------------------------------------------ bounds

\* Number of entries of stock_symbols the run iterates over.
NumSymbols == 2

\* ------------------------------------------------------------- Python values

None == <<>>
Some(v) == <<v>>

\* The first entries of the stock_symbols dict, in its iteration order.
AllSymbols ==
    << <<"BAuto", "5248.KL">>, <<"Bursa", "1818.KL">>, <<"CIMB", "1023.KL">>,
       <<"Dayang", "5141.KL">>, <<"GenM", "4715.KL">>, <<"HapSeng", "3034.KL">> >>

stock_symbols == SubSeq(AllSymbols, 1, NumSymbols)

PriceKeys == {"regularMarketPrice", "currentPrice", "previousClose",
              "regularMarketPreviousClose"}
RangeKeys == {"dayHigh", "dayLow"}
Keys == PriceKeys \cup RangeKeys

\* Payloads: a dict holding one of the key sets KS, with prices from P and the
\* day's range from H.
QuotesOver(KS, P, H) ==
    UNION { { q \in [K -> P \cup H] :
                \A k \in K : IF k \in PriceKeys THEN q[k] \in P ELSE q[k] \in H }
            : K \in KS }

EmptyQuote == [k \in {} |-> 0]

\* Payloads the provider returns during a run: any subset of the price keys,
\* the day's range present or absent as a whole.
RunQuotes ==
    QuotesOver({K \in SUBSET Keys : ("dayHigh" \in K) = ("dayLow" \in K)},
               {0, 10500}, {10804})

\* Payloads the normalization is checked on by itself.
NormQuotes == QuotesOver(SUBSET Keys, {0, 10000, 10500, 12346}, {0, 10804})

Raised == [kind |-> "raised", info |-> EmptyQuote]
Unset == [kind |-> "unset", info |-> EmptyQuote]
Info(q) == [kind |-> "info", info |-> q]

ProviderResponses == {Raised} \cup {Info(q) : q \in RunQuotes}

\* --------------------------------------------------------------- rounding

\* n / d rounded to the nearest integer, ties to even (d > 0).
RoundHalfEven(n, d) ==
    LET q == n \div d
        r == n % d
    IN  IF 2 * r < d THEN q
        ELSE IF 2 * r > d THEN q + 1
        ELSE IF q % 2 = 0 THEN q ELSE q + 1

\* round(x, 3) of a price given in 1/10000: the result in 1/1000.
round3(x) == RoundHalfEven(x, 10)

\* ------------------------------------------------------------ normalization

\* data.get(k)
get(d, k) == IF k \in DOMAIN d THEN Some(d[k]) ELSE None

resolve_truthy(d, primary, fallback) ==
    LET x == get(d, primary)
    IN  IF x = None \/ x = Some(0) THEN get(d, fallback) ELSE x

resolve_default0(d, primary, fallback) ==
    LET x == get(d, primary)
    IN  IF x = None
        THEN (IF fallback \in DOMAIN d THEN Some(d[fallback]) ELSE Some(0))
        ELSE x

\* x = data.get(primary); if x is None: x = data.get(fallback)
resolve(d, primary, fallback) ==
    LET x == get(d, primary)
    IN  IF x = None THEN get(d, fallback) ELSE x

change_pct_unguarded(change, prev_close) ==
    IF prev_close = 0
    THEN [raised |-> TRUE, value |-> 0]
    ELSE [raised |-> FALSE, value |-> RoundHalfEven(change * 10000, prev_close)]

\* round((change / prev_close) * 100 if prev_close != 0 else 0, 2), in 1/100
\* percent; raised is a ZeroDivisionError.
change_pct_of(change, prev_close) ==
    IF prev_close # 0
    THEN [raised |-> FALSE,
          value |-> IF prev_close > 0
                    THEN RoundHalfEven(change * 10000, prev_close)
                    ELSE RoundHalfEven(-(change * 10000), -prev_close)]
    ELSE [raised |-> FALSE, value |-> 0]

\* The body of the try block for one payload: a record, nothing, or an exception.
normalize(company, symbol, d) ==
    LET last_done == resolve(d, "regularMarketPrice", "currentPrice")
        prev_close == resolve(d, "previousClose", "regularMarketPreviousClose")
        day_high == get(d, "dayHigh")
        day_low == get(d, "dayLow")
    IN  IF last_done # None /\ prev_close # None
        THEN LET change == last_done[1] - prev_close[1]
                 pct == change_pct_of(change, prev_close[1])
             IN  IF pct.raised
                 THEN [kind |-> "raise", rec |-> <<>>]
                 ELSE [kind |-> "record",
                       rec |-> << [company_name |-> company,
                                   symbol |-> symbol,
                                   prev_close |-> round3(prev_close[1]),
                                   last_done |-> round3(last_done[1]),
                                   high |-> IF day_high # None THEN round3(day_high[1]) ELSE 0,
                                   low |-> IF day_low # None THEN round3(day_low[1]) ELSE 0,
                                   change |-> round3(change),
                                   change_pct |-> pct.value] >>]
        ELSE [kind |-> "none", rec |-> <<>>]

\* ------------------------------------------------------------------ helpers

L(op, arg) == [op |-> op, arg |-> arg]

Names(records) == {records[i].company_name : i \in 1..Len(records)}

Min(a, b) == IF a < b THEN a ELSE b
Max(a, b) == IF a > b THEN a ELSE b

\* ------------------------------------------------------------ Market-Day Gate

is_market_day_sunday_only(wd) == ~(wd >= 6)

\* False when today.weekday() >= 5.
is_market_day(wd) == ~(wd >= 5)

\* ------------------------------------------------------------------ fetch loop

break_on_error(i) == Len(stock_symbols) + 1

\* The except branch ends in continue: the loop goes on with the next symbol.
continue_on_error(i) == i + 1

\* One iteration of the loop of get_closing_prices_yfinance, for the provider's
\* response resp: what it logs, the record it inserts, the next position.
fetch_one(i, resp) ==
    LET company == stock_symbols[i][1]
        symbol == stock_symbols[i][2]
        r == IF resp.kind = "info"
             THEN normalize(company, symbol, resp.info)
             ELSE [kind |-> "raise", rec |-> <<>>]
    IN  IF r.kind = "record"
        THEN [rec |-> r.rec,
              out |-> <<L("fetch", company), L("ok", company), L("sleep", company)>>,
              next |-> i + 1]
        ELSE IF r.kind = "none"
        THEN [rec |-> <<>>,
              out |-> <<L("fetch", company), L("nodata", company), L("sleep", company)>>,
              next |-> i + 1]
        ELSE [rec |-> <<>>,
              out |-> <<L("fetch", company), L("error", company)>>,
              next |-> continue_on_error(i)]

\* Whether the payload d leaves last_done or prev_close without a value.
Unresolvable(d) ==
    \/ "regularMarketPrice" \notin DOMAIN d /\ "currentPrice" \notin DOMAIN d
    \/ "previousClose" \notin DOMAIN d /\ "regularMarketPreviousClose" \notin DOMAIN d

\* ------------------------------------------------------------------- persist

FileName == "malaysian_stocks_timestamp.csv"

\* save_to_csv: dir_ok says whether os.getcwd and os.makedirs succeed (they run
\* before the try block), write_ok whether DataFrame.to_csv succeeds.
save_to_csv(data_to_save, dir_ok, write_ok) ==
    IF data_to_save = <<>>
    THEN [raised |-> FALSE, path |-> None, file |-> None, out |-> <<L("nothing_to_save", "")>>]
    ELSE IF ~dir_ok
    THEN [raised |-> TRUE, path |-> None, file |-> None, out |-> <<>>]
    ELSE IF write_ok
    THEN [raised |-> FALSE, path |-> Some(FileName), file |-> Some(data_to_save),
          out |-> <<L("saved", FileName)>>]
    ELSE [raised |-> FALSE, path |-> None, file |-> None, out |-> <<L("save_error", "")>>]

\* ------------------------------------------------------------------- summary

RECURSIVE insert_desc(_, _)
insert_desc(r, s) ==
    IF s = <<>> THEN <<r>>
    ELSE IF r.change_pct > Head(s).change_pct THEN <<r>> \o s
    ELSE <<Head(s)>> \o insert_desc(r, Tail(s))

RECURSIVE sort_values_desc(_)
sort_values_desc(records) ==
    IF records = <<>> THEN <<>>
    ELSE insert_desc(records[Len(records)], sort_values_desc(SubSeq(records, 1, Len(records) - 1)))

\* generate_stock_summary: top 5, bottom 5 and the counts.
generate_stock_summary(stock_data) ==
    IF stock_data = <<>>
    THEN [available |-> FALSE, gainers |-> <<>>, losers |-> <<>>,
          total |-> 0, up |-> 0, down |-> 0, unchanged |-> 0]
    ELSE LET df_sorted == sort_values_desc(stock_data)
             n == Len(df_sorted)
             head == SubSeq(df_sorted, 1, Min(5, n))
             tail == SubSeq(df_sorted, Max(1, n - 4), n)
         IN  [available |-> TRUE,
              gainers |-> [i \in 1..Len(head) |-> head[i].company_name],
              losers |-> [i \in 1..Len(tail) |-> tail[i].company_name],
              total |-> n,
              up |-> Cardinality({i \in 1..n : stock_data[i].change_pct > 0}),
              down |-> Cardinality({i \in 1..n : stock_data[i].change_pct < 0}),
              unchanged |-> Cardinality({i \in 1..n : stock_data[i].change_pct = 0})]

\* -------------------------------------------------------------------- notify

\* send_email_with_attachment: file is what the path holds on disk (None when
\* os.path.exists is false), read_ok whether opening and reading it succeed,
\* smtp_ok whether connecting, logging in and sendmail succeed.
send_email_with_attachment(path, summary, file, read_ok, smtp_ok) ==
    LET attached == path # None /\ file # None /\ read_ok
        msg == [body |-> summary,
                attachment |-> IF attached THEN file ELSE None]
        out1 == IF path # None /\ file # None
                THEN (IF read_ok THEN <<L("attached", "")>> ELSE <<L("attach_error", "")>>)
                ELSE <<>>
    IN  IF smtp_ok
        THEN [sent |-> TRUE, submitted |-> <<msg>>, out |-> out1 \o <<L("email_sent", "")>>]
        ELSE [sent |-> FALSE, submitted |-> <<>>, out |-> out1 \o <<L("email_error", "")>>]

\* --------------------------------------------------------------- orchestrator

never_empty(stock_data) == FALSE

\* if not stock_data
no_stock_data(stock_data) == stock_data = <<>>

notify_always(path) == TRUE

\* if csv_file_path
should_notify(path) == path # None

Init ==
    /\ pc = "start"
    /\ weekday \in 0..6
    /\ idx = 1
    /\ data = Unset
    /\ closing_prices = <<>>
    /\ unresolved = {}
    /\ log = <<>>
    /\ table = <<>>
    /\ csv_file_path = None
    /\ csv_file = None
    /\ stock_summary = None
    /\ outbox = <<>>
    /\ exit_status = None

\* run_stock_scraper up to the gate: return when the market is closed.
GateCheck ==
    /\ pc = "start"
    /\ IF is_market_day(weekday)
       THEN /\ pc' = "fetch"
            /\ log' = log \o <<L("gate_open", "")>>
            /\ exit_status' = exit_status
       ELSE /\ pc' = "end"
            /\ log' = log \o <<L("market_closed", "")>>
            /\ exit_status' = Some(0)
    /\ UNCHANGED <<weekday, idx, data, closing_prices, unresolved, table,
                   csv_file_path, csv_file, stock_summary, outbox>>

\* One iteration of the fetch loop.
FetchSymbol ==
    /\ pc = "fetch"
    /\ idx <= Len(stock_symbols)
    /\ \E resp \in ProviderResponses :
         LET f == fetch_one(idx, resp)
         IN  /\ data' = resp
             /\ closing_prices' = closing_prices \o f.rec
             /\ log' = log \o f.out
             /\ idx' = f.next
             /\ unresolved' = IF resp.kind = "info" /\ Unresolvable(resp.info)
                              THEN unresolved \cup {stock_symbols[idx][1]}
                              ELSE unresolved
    /\ UNCHANGED <<pc, weekday, table, csv_file_path, csv_file, stock_summary,
                   outbox, exit_status>>

\* The loop is over: return closing_prices; the run ends if it is empty.
FetchReturn ==
    /\ pc = "fetch"
    /\ idx > Len(stock_symbols)
    /\ data' = Unset
    /\ IF no_stock_data(closing_prices)
       THEN /\ pc' = "end"
            /\ log' = log \o <<L("no_data_exit", "")>>
            /\ exit_status' = Some(0)
       ELSE /\ pc' = "render"
            /\ log' = log
            /\ exit_status' = exit_status
    /\ UNCHANGED <<weekday, idx, closing_prices, unresolved, table,
                   csv_file_path, csv_file, stock_summary, outbox>>

\* The console report: one row per record.
Render ==
    /\ pc = "render"
    /\ table' = closing_prices
    /\ log' = log \o <<L("render", "")>>
    /\ pc' = "persist"
    /\ UNCHANGED <<weekday, idx, data, closing_prices, unresolved,
                   csv_file_path, csv_file, stock_summary, outbox, exit_status>>

\* csv_file_path = save_to_csv(stock_data); an exception it does not catch
\* leaves run_stock_scraper and ends the process with status 1.
Persist ==
    /\ pc = "persist"
    /\ \E dir_ok \in BOOLEAN, write_ok \in BOOLEAN :
         LET s == save_to_csv(closing_prices, dir_ok, write_ok)
         IN  /\ log' = log \o <<L("save", "")>> \o s.out
             /\ IF s.raised
                THEN /\ pc' = "uncaught"
                     /\ exit_status' = Some(1)
                     /\ UNCHANGED <<csv_file_path, csv_file>>
                ELSE /\ pc' = "summary"
                     /\ exit_status' = exit_status
                     /\ csv_file_path' = s.path
                     /\ csv_file' = s.file
    /\ UNCHANGED <<weekday, idx, data, closing_prices, unresolved, table,
                   stock_summary, outbox>>

\* stock_summary = generate_stock_summary(stock_data), then the test of
\* csv_file_path: without a path the run prints its last line and returns.
Summarize ==
    /\ pc = "summary"
    /\ stock_summary' = Some(generate_stock_summary(closing_prices))
    /\ IF should_notify(csv_file_path)
       THEN /\ pc' = "notify"
            /\ log' = log \o <<L("summary", "")>>
            /\ exit_status' = exit_status
       ELSE /\ pc' = "end"
            /\ log' = log \o <<L("summary", ""), L("completed", "")>>
            /\ exit_status' = Some(0)
    /\ UNCHANGED <<weekday, idx, data, closing_prices, unresolved, table,
                   csv_file_path, csv_file, outbox>>

\* email_sent = send_email_with_attachment(csv_file_path, stock_summary), the
\* line about its result, and the last line of the run.
Notify ==
    /\ pc = "notify"
    /\ \E on_disk \in {None, csv_file}, read_ok \in BOOLEAN, smtp_ok \in BOOLEAN :
         LET e == send_email_with_attachment(csv_file_path, stock_summary[1],
                                             on_disk, read_ok, smtp_ok)
         IN  /\ outbox' = outbox \o e.submitted
             /\ log' = log \o <<L("notify", "")>> \o e.out
                          \o <<L(IF e.sent THEN "report_sent" ELSE "report_failed", ""),
                               L("completed", "")>>
    /\ pc' = "end"
    /\ exit_status' = Some(0)
    /\ UNCHANGED <<weekday, idx, data, closing_prices, unresolved, table,
                   csv_file_path, csv_file, stock_summary>>

Next ==
    \/ GateCheck
    \/ FetchSymbol
    \/ FetchReturn
    \/ Render
    \/ Persist
    \/ Summarize
    \/ Notify

Spec == Init /\ [][Next]_vars

\* ------------------------------------------------- normalization by itself

InitNormalize ==
    /\ pc = "normalize"
    /\ weekday = 0
    /\ idx = 1
    /\ data \in {Info(q) : q \in NormQuotes}
    /\ closing_prices = <<>>
    /\ unresolved = {}
    /\ log = <<>>
    /\ table = <<>>
    /\ csv_file_path = None
    /\ csv_file = None
    /\ stock_summary = None
    /\ outbox = <<>>
    /\ exit_status = None

\* The loop body applied to the payload in data.
NormalizeStep ==
    /\ pc = "normalize"
    /\ LET f == fetch_one(idx, data)
       IN  /\ closing_prices' = closing_prices \o f.rec
           /\ log' = log \o f.out
    /\ pc' = "normalized"
    /\ UNCHANGED <<weekday, idx, data, unresolved, table, csv_file_path,
                   csv_file, stock_summary, outbox, exit_status>>

NextNormalize == NormalizeStep

SpecNormalize == InitNormalize /\ [][NextNormalize]_vars

\* -------------------------------------------------------------------- claims

Ops(l) == {l[i].op : i \in 1..Len(l)}

Logged(op, arg) == \E i \in 1..Len(log) : log[i] = L(op, arg)

LoopDone == pc \notin {"start", "fetch", "normalize", "normalized"} /\ "gate_open" \in Ops(log)

Companies == [i \in 1..Len(stock_symbols) |-> stock_symbols[i][1]]

\* The companies the provider was called for, in call order.
Fetched ==
    LET calls == SelectSeq(log, LAMBDA e : e.op = "fetch")
    IN  [i \in 1..Len(calls) |-> calls[i].arg]

PersistFailed == {"save_error", "nothing_to_save"} \cap Ops(log) # {} \/ pc = "uncaught"

\* C1: a NOTIFY step occurs only after a PERSIST step that produced a file
\* path; in a run whose PERSIST failed, send_email_with_attachment is not
\* invoked and nothing is submitted.
C1_NotifyOnlyAfterPersist ==
    /\ \A i \in 1..Len(log) :
         log[i].op = "notify" =>
           /\ \E j \in 1..(i - 1) : log[j].op = "saved"
           /\ csv_file_path # None
    /\ PersistFailed => "notify" \notin Ops(log) /\ outbox = <<>> /\ pc # "notify"

C1_Witness ==
    /\ pc = "end"
    /\ "save_error" \in Ops(log)
    /\ "completed" \in Ops(log)
    /\ "notify" \notin Ops(log)

\* C2: when the Record Set returned by the fetch loop is empty the run goes
\* straight to END: no render, no save_to_csv, no summary, no notification.
C2_EmptyRecordSetEndsRun ==
    (LoopDone /\ closing_prices = <<>>) =>
        /\ pc = "end"
        /\ exit_status = Some(0)
        /\ log[Len(log)].op = "no_data_exit"
        /\ {"render", "save", "summary", "notify"} \cap Ops(log) = {}
        /\ table = <<>> /\ csv_file = None /\ csv_file_path = None
        /\ stock_summary = None /\ outbox = <<>>

C2_Witness ==
    /\ pc = "end"
    /\ closing_prices = <<>>
    /\ Fetched = Companies
    /\ Logged("no_data_exit", "")

\* C3: the gate is closed exactly on Saturday (5) and Sunday (6); a closed
\* gate ends the run at once, with no fetch, render, persist or notify.
C3_MarketDayGate ==
    pc # "start" /\ pc # "normalize" /\ pc # "normalized" =>
        /\ ("market_closed" \in Ops(log)) = (weekday \in {5, 6})
        /\ ("gate_open" \in Ops(log)) = (weekday \in 0..4)
        /\ weekday \in {5, 6} =>
             /\ pc = "end"
             /\ log = <<L("market_closed", "")>>
             /\ closing_prices = <<>> /\ table = <<>> /\ csv_file = None
             /\ outbox = <<>> /\ idx = 1

C3_Witness ==
    /\ pc = "end"
    /\ weekday = 5
    /\ log = <<L("market_closed", "")>>

\* C4 (state part): once the loop is over every Symbol Entry was fetched exactly
\* once in list order, whatever the outcomes; a symbol whose fetch failed or
\* gave no price data has no record, the others have theirs, in list order.
C4_LoopState ==
    /\ pc = "fetch" => Fetched = SubSeq(Companies, 1, Len(Fetched))
    /\ LoopDone => Fetched = Companies
    /\ \A i \in 1..Len(Fetched) :
         LET c == Fetched[i]
         IN  /\ Logged("ok", c) \/ Logged("nodata", c) \/ Logged("error", c)
             /\ (c \in Names(closing_prices)) = Logged("ok", c)
    /\ \A i, j \in 1..Len(closing_prices) :
         i < j => \E a, b \in 1..Len(Companies) :
                    /\ a < b
                    /\ Companies[a] = closing_prices[i].company_name
                    /\ Companies[b] = closing_prices[j].company_name

\* C4 (step part): a step never changes or removes a record already present.
C4_LoopStep ==
    /\ Len(closing_prices') >= Len(closing_prices)
    /\ SubSeq(closing_prices', 1, Len(closing_prices)) = closing_prices

\* C4: a per-symbol failure never halts the fetch loop.
C4_FailureDoesNotHaltLoop == [](C4_LoopState) /\ [][C4_LoopStep]_vars

C4_Witness ==
    /\ LoopDone
    /\ Logged("error", Companies[1])
    /\ Logged("ok", Companies[2])
    /\ Names(closing_prices) = {Companies[2]}

\* C5: every run ends with exit status 0; no exception leaves run_stock_scraper.
C5_AlwaysExitsZero ==
    /\ pc # "uncaught"
    /\ exit_status \in {None, Some(0)}

RECURSIVE Range(_)
Range(s) == IF s = <<>> THEN {} ELSE {Head(s)} \cup Range(Tail(s))

\* The companies named in any output of the run.
Downstream ==
    Names(closing_prices) \cup Names(table)
    \cup (IF csv_file = None THEN {} ELSE Names(csv_file[1]))
    \cup (IF stock_summary = None THEN {}
          ELSE Range(stock_summary[1].gainers) \cup Range(stock_summary[1].losers))
    \cup UNION { Range(outbox[i].body.gainers) \cup Range(outbox[i].body.losers)
                 \cup (IF outbox[i].attachment = None THEN {}
                       ELSE Names(outbox[i].attachment[1]))
                 : i \in 1..Len(outbox) }

\* C6: a symbol has a record only if both last_done and prev_close resolved;
\* a symbol with either price absent under both keys has no record and is in
\* no downstream output (table, file, summary, message).
C6_RecordOnlyIfBothResolved ==
    /\ unresolved \cap Downstream = {}
    /\ \A c \in unresolved : Logged("nodata", c) /\ ~Logged("ok", c)
    /\ (pc = "fetch" /\ data.kind = "info" /\ idx > 1
        /\ stock_symbols[idx - 1][1] \in Names(closing_prices))
         => ~Unresolvable(data.info)

C6_Witness ==
    /\ pc = "end"
    /\ unresolved # {}
    /\ outbox # <<>>
    /\ outbox[1].attachment # None

Present(d, k) == k \in DOMAIN d

\* C7: last_done is regularMarketPrice whenever that key is present, and
\* currentPrice only when it is absent; prev_close is previousClose whenever
\* present, and regularMarketPreviousClose only when it is absent; 0 is a
\* present value.
C7_FallbackPrecedence ==
    (pc = "normalized" /\ closing_prices # <<>>) =>
        LET d == data.info
            r == closing_prices[1]
        IN  /\ Present(d, "regularMarketPrice")
                 => r.last_done = round3(d["regularMarketPrice"])
            /\ ~Present(d, "regularMarketPrice")
                 => Present(d, "currentPrice") /\ r.last_done = round3(d["currentPrice"])
            /\ Present(d, "previousClose")
                 => r.prev_close = round3(d["previousClose"])
            /\ ~Present(d, "previousClose")
                 => /\ Present(d, "regularMarketPreviousClose")
                    /\ r.prev_close = round3(d["regularMarketPreviousClose"])

C7_Witness ==
    /\ pc = "normalized"
    /\ closing_prices # <<>>
    /\ Present(data.info, "regularMarketPrice") /\ data.info["regularMarketPrice"] = 0
    /\ Present(data.info, "currentPrice") /\ data.info["currentPrice"] = 10500
    /\ ~Present(data.info, "previousClose")
    /\ Present(data.info, "regularMarketPreviousClose")
    /\ closing_prices[1].last_done = 0
    /\ closing_prices[1].prev_close = 1000

\* The payload d gives prev_close the value 0, by the primary or the fallback key.
PrevCloseIsZero(d) ==
    \/ Present(d, "previousClose") /\ d["previousClose"] = 0
    \/ /\ ~Present(d, "previousClose")
       /\ Present(d, "regularMarketPreviousClose")
       /\ d["regularMarketPreviousClose"] = 0

\* C9: when prev_close resolves to 0 and last_done to a value, the symbol is
\* recorded with change_pct 0 and no exception is raised.
C9_ZeroPrevClose ==
    (pc = "normalized" /\ PrevCloseIsZero(data.info)
     /\ (Present(data.info, "regularMarketPrice") \/ Present(data.info, "currentPrice")))
      => /\ Len(closing_prices) = 1
         /\ closing_prices[1].change_pct = 0
         /\ closing_prices[1].prev_close = 0
         /\ "error" \notin Ops(log)
         /\ "ok" \in Ops(log)

C9_Witness ==
    /\ pc = "normalized"
    /\ ~Present(data.info, "previousClose")
    /\ PrevCloseIsZero(data.info)
    /\ Len(closing_prices) = 1
    /\ closing_prices[1].last_done = 1235
    /\ closing_prices[1].change = 1235
    /\ closing_prices[1].change_pct = 0

\* C8: every message submitted to the transport carries the summary as its
\* body and the output file as an attachment.
C8_EveryMessageHasAttachment ==
    \A i \in 1..Len(outbox) :
        /\ stock_summary # None /\ outbox[i].body = stock_summary[1]
        /\ outbox[i].attachment # None
        /\ outbox[i].attachment = Some(closing_prices)

====
